---- MODULE Spec2Model ----
(***************************************************************************)
(* Plinth's PageKite module (modules/pagekite/pagekite.py): the configure  *)
(* view reads the configuration of the pagekite-configure tool with        *)
(* get_status, diffs it against the submitted form in _apply_changes and   *)
(* issues one CLI call per changed field.  Every CLI call is one step, so  *)
(* that two requests served at the same time interleave call by call.      *)
(*                                                                         *)
(* A text is a sequence of symbols.  A symbol is a whitespace character    *)
(* (" " or "\n") or a piece of text without whitespace ("a", "enabled").   *)
(* A Python dict is a function on its keys; None is the record None.       *)
(* tool0 keeps the tool's configuration as the requests found it, and      *)
(* trace the order in which the requests read and applied.                 *)
(***************************************************************************)
EXTENDS Integers, Sequences, FiniteSets, TLC

VARIABLES tool, tool0, method, post, pc, phase, st, status, old_status,
          messages, calls, trace, errBudget

vars == <<tool, tool0, method, post, pc, phase, st, status, old_status,
          messages, calls, trace, errBudget>>

\* ------------------------------------------------------------ bounds

\* How many CLI invocations may report an error in one behaviour.
MaxErrors == 1

\* The requests that can be in flight together.
Reqs == {1, 2}

\* ------------------------------------------------------------- texts

Whitespace == {" ", "\n"}

T(s) == <<s>>

Concat(a, b) == a \o b

RECURSIVE lstrip(_)
lstrip(s) ==
    IF s # <<>> /\ Head(s) \in Whitespace THEN lstrip(Tail(s)) ELSE s

RECURSIVE rstrip(_)
rstrip(s) ==
    IF s # <<>> /\ s[Len(s)] \in Whitespace
    THEN rstrip(SubSeq(s, 1, Len(s) - 1))
    ELSE s

\* str.strip(): leading and trailing whitespace removed.
strip(s) == rstrip(lstrip(s))

RECURSIVE SplitFrom(_, _, _)
SplitFrom(s, word, words) ==
    IF s = <<>>
    THEN IF word = <<>> THEN words ELSE Append(words, word)
    ELSE IF Head(s) \in Whitespace
         THEN SplitFrom(Tail(s), <<>>,
                        IF word = <<>> THEN words ELSE Append(words, word))
         ELSE SplitFrom(Tail(s), Append(word, Head(s)), words)

\* str.split(): the maximal runs of symbols that are not whitespace.
split(s) == SplitFrom(s, <<>>, <<>>)

\* ----------------------------------------------------------- the form

\* The longest label the kite name's pattern accepts.
LabelMax == 63

RECURSIVE LabelsFrom(_, _, _)
LabelsFrom(s, label, labels) ==
    IF s = <<>>
    THEN Append(labels, label)
    ELSE IF Head(s) = "."
         THEN LabelsFrom(Tail(s), <<>>, Append(labels, label))
         ELSE LabelsFrom(Tail(s), Append(label, Head(s)), labels)

\* RegexValidator(r'^[\w-]{1,63}(\.[\w-]{1,63})*$'): labels of 1 to 63
\* word symbols, separated by single dots.
KiteNameMatches(s) ==
    \A i \in DOMAIN LabelsFrom(s, <<>>, <<>>) :
        LET label == LabelsFrom(s, <<>>, <<>>)[i]
        IN  /\ Len(label) >= 1
            /\ Len(label) <= LabelMax
            /\ \A j \in DOMAIN label : label[j] \notin Whitespace

\* TrimmedCharField.clean: a value that is not empty is stripped.
TrimmedClean(value) == IF value # <<>> THEN strip(value) ELSE value

\* A required CharField rejects the empty value.
RequiredOk(value) == TrimmedClean(value) # <<>>

\* form.is_valid() of ConfigureForm on the posted data p.
is_valid(p) ==
    /\ RequiredOk(p.kite_name)
    /\ KiteNameMatches(TrimmedClean(p.kite_name))
    /\ RequiredOk(p.kite_secret)

\* form.cleaned_data of a valid ConfigureForm: one key per form field.
cleaned_data(p) ==
    [enabled      |-> p.enabled,
     server       |-> <<>>,
     kite_name    |-> TrimmedClean(p.kite_name),
     kite_secret  |-> TrimmedClean(p.kite_secret),
     http_enabled |-> p.http_enabled,
     ssh_enabled  |-> p.ssh_enabled]

\* ------------------------------------------- the pagekite-configure tool

EnabledWord(b) == IF b THEN T("enabled") ELSE T("disabled")

\* What the tool prints on its standard output for a subcommand.
ToolOutput(t, arguments) ==
    LET op == arguments[1] IN
    IF op = T("get-installed")
    THEN IF t.installed
         THEN <<"installed", "\n">>
         ELSE <<"not", " ", "installed", "\n">>
    ELSE IF op = T("get-status")
    THEN Concat(EnabledWord(t.enabled), T("\n"))
    ELSE IF op = T("get-kite")
    THEN Concat(Concat(t.kite_name, T(" ")), Concat(t.kite_secret, T("\n")))
    ELSE IF op = T("get-service-status")
    THEN IF arguments[2] = T("http")
         THEN Concat(EnabledWord(t.http_enabled), T("\n"))
         ELSE Concat(EnabledWord(t.ssh_enabled), T("\n"))
    ELSE <<>>

\* The tool's configuration after a subcommand that takes effect.
ToolApply(t, arguments) ==
    LET op == arguments[1] IN
    IF op = T("stop") THEN [t EXCEPT !.running = FALSE]
    ELSE IF op = T("start") THEN [t EXCEPT !.running = TRUE]
    ELSE IF op = T("set-status")
    THEN [t EXCEPT !.enabled = (arguments[2] = T("enable"))]
    ELSE IF op = T("set-kite")
    THEN [t EXCEPT !.kite_name = arguments[3], !.kite_secret = arguments[5]]
    ELSE IF op = T("set-service-status")
    THEN IF arguments[2] = T("http")
         THEN [t EXCEPT !.http_enabled = (arguments[3] = T("enable"))]
         ELSE [t EXCEPT !.ssh_enabled = (arguments[3] = T("enable"))]
    ELSE t

\* actions.superuser_run(command, arguments): the (output, error) pairs the
\* tool may answer with, and its configuration afterwards.  A call that
\* reports an error may or may not have taken effect.
superuser_run(arguments) ==
    {[output |-> ToolOutput(tool, arguments),
      error  |-> <<>>,
      after  |-> ToolApply(tool, arguments)]}
    \cup
    (IF errBudget > 0
     THEN {[output |-> <<>>, error |-> T("error"), after |-> t] :
              t \in {tool, ToolApply(tool, arguments)}}
     ELSE {})

\* ------------------------------------------------------------ values

None == [None |-> TRUE]

KiteNames == {<<"a">>, <<"b">>}

KiteSecrets == {<<"s">>, <<"t">>, <<"s", " ", "t">>}

\* What a browser may post in the kite name field.
PostedNames == {<<"a">>, <<" ", "b">>, <<"a", ".", ".", "b">>}

\* What a browser may post in the kite secret field.
PostedSecrets == {<<"s">>, <<"t", "\n">>, <<"s", " ", "t">>, <<" ">>}

Tools ==
    [installed : BOOLEAN, running : BOOLEAN, enabled : BOOLEAN,
     kite_name : KiteNames, kite_secret : KiteSecrets,
     http_enabled : BOOLEAN, ssh_enabled : BOOLEAN]

Posts ==
    [enabled : BOOLEAN, kite_name : PostedNames, kite_secret : PostedSecrets,
     http_enabled : BOOLEAN, ssh_enabled : BOOLEAN]

\* request.POST of a GET request.
NoPost ==
    [enabled |-> FALSE, kite_name |-> <<>>, kite_secret |-> <<>>,
     http_enabled |-> FALSE, ssh_enabled |-> FALSE]

\* ------------------------------------------------------------- _run

\* _run: "if error: raise Exception(...)".
run_raises(res) == res.error # <<>>

\* One invocation of the tool by request r, as _run makes it.
Invoke(r, arguments, res) ==
    /\ tool' = res.after
    /\ calls' = [calls EXCEPT ![r] =
                    Append(@, [arguments |-> arguments,
                               output    |-> res.output,
                               error     |-> res.error])]
    /\ errBudget' = IF res.error # <<>> THEN errBudget - 1 ELSE errBudget

\* ------------------------------------------------------- get_status

Services == {"http", "ssh"}

GetPc(service) == "get-service-status " \o service

\* Return with form.is_valid() left out.
ReturnWithoutValidation(r, value) ==
    /\ status' = [status EXCEPT ![r] = value]
    /\ st' = [st EXCEPT ![r] = <<>>]
    /\ IF phase[r] = 1
       THEN /\ trace' = Append(trace, <<r, "status">>)
            /\ IF method[r] = "POST"
               THEN /\ pc' = [pc EXCEPT ![r] = "stop"]
                    /\ old_status' = [old_status EXCEPT ![r] = value]
               ELSE /\ pc' = [pc EXCEPT ![r] = "done"]
                    /\ UNCHANGED old_status
       ELSE /\ pc' = [pc EXCEPT ![r] = "done"]
            /\ UNCHANGED <<old_status, trace>>

\* configure, from the return of get_status to its next CLI call: the first
\* get_status is followed by _apply_changes when the request is a POST with
\* a valid form, and by the response otherwise; the second by the response.
Return(r, value) ==
    /\ status' = [status EXCEPT ![r] = value]
    /\ st' = [st EXCEPT ![r] = <<>>]
    /\ IF phase[r] = 1
       THEN /\ trace' = Append(trace, <<r, "status">>)
            /\ IF method[r] = "POST" /\ is_valid(post[r])
               THEN /\ pc' = [pc EXCEPT ![r] = "stop"]
                    /\ old_status' = [old_status EXCEPT ![r] = value]
               ELSE /\ pc' = [pc EXCEPT ![r] = "done"]
                    /\ UNCHANGED old_status
       ELSE /\ pc' = [pc EXCEPT ![r] = "done"]
            /\ UNCHANGED <<old_status, trace>>

\* get_status raising out of configure.
Raise(r) ==
    /\ pc' = [pc EXCEPT ![r] = "failed"]
    /\ UNCHANGED <<st, status, old_status, trace>>

\* get_status going on to its next CLI call with the dict built so far.
Goto(r, next, dict) ==
    /\ pc' = [pc EXCEPT ![r] = next]
    /\ st' = [st EXCEPT ![r] = dict]
    /\ UNCHANGED <<status, old_status, trace>>

GetInstalled(r) ==
    /\ pc[r] = "get-installed"
    /\ \E res \in superuser_run(<<T("get-installed")>>) :
          /\ Invoke(r, <<T("get-installed")>>, res)
          /\ IF run_raises(res) THEN Raise(r)
             ELSE IF split(res.output)[1] # T("installed")
                  THEN Return(r, None)
                  ELSE Goto(r, "get-status", <<>>)
    /\ UNCHANGED <<tool0, method, post, phase, messages>>

GetStatus(r) ==
    /\ pc[r] = "get-status"
    /\ \E res \in superuser_run(<<T("get-status")>>) :
          /\ Invoke(r, <<T("get-status")>>, res)
          /\ IF run_raises(res) THEN Raise(r)
             ELSE Goto(r, "get-kite",
                       st[r] @@ ("enabled" :>
                                    (split(res.output)[1] = T("enabled"))))
    /\ UNCHANGED <<tool0, method, post, phase, messages>>

\* GetKite with the two tokens of the output taken in the other order.
GetKiteSwapped(r) ==
    /\ pc[r] = "get-kite"
    /\ \E res \in superuser_run(<<T("get-kite")>>) :
          /\ Invoke(r, <<T("get-kite")>>, res)
          /\ IF run_raises(res) THEN Raise(r)
             ELSE LET kite_details == split(res.output)
                  IN  Goto(r, GetPc("http"),
                           st[r] @@ ("kite_name" :> kite_details[2])
                                 @@ ("kite_secret" :> kite_details[1])
                                 @@ ("service" :> <<>>))
    /\ UNCHANGED <<tool0, method, post, phase, messages>>

GetKite(r) ==
    /\ pc[r] = "get-kite"
    /\ \E res \in superuser_run(<<T("get-kite")>>) :
          /\ Invoke(r, <<T("get-kite")>>, res)
          /\ IF run_raises(res) THEN Raise(r)
             ELSE LET kite_details == split(res.output)
                  IN  Goto(r, GetPc("http"),
                           st[r] @@ ("kite_name" :> kite_details[1])
                                 @@ ("kite_secret" :> kite_details[2])
                                 @@ ("service" :> <<>>))
    /\ UNCHANGED <<tool0, method, post, phase, messages>>

GetServiceStatus(r) ==
    /\ \E service \in Services :
          /\ pc[r] = GetPc(service)
          /\ \E res \in superuser_run(<<T("get-service-status"), T(service)>>) :
                /\ Invoke(r, <<T("get-service-status"), T(service)>>, res)
                /\ IF run_raises(res) THEN Raise(r)
                   ELSE LET dict == st[r] @@ ((service \o "_enabled") :>
                                     (split(res.output)[1] = T("enabled")))
                        IN  IF service = "http"
                            THEN Goto(r, GetPc("ssh"), dict)
                            ELSE Return(r, dict)
    /\ UNCHANGED <<tool0, method, post, phase, messages>>

\* --------------------------------------------------- _apply_changes

\* form.cleaned_data, the new_status of _apply_changes.
new_status(r) == cleaned_data(post[r])

EnableWord(b) == IF b THEN T("enable") ELSE T("disable")

\* "if old_status != new_status": the comparison of the two dicts.
status_differs(old, new) == old # new

\* kite_differs comparing the kite name alone.
kite_differs_by_name(old, new) == old.kite_name # new.kite_name

\* kite_differs always true: the kite details are written every time.
kite_always_differs(old, new) == TRUE

\* "old_status['kite_name'] != ... or old_status['kite_secret'] != ...".
kite_differs(old, new) ==
    old.kite_name # new.kite_name \/ old.kite_secret # new.kite_secret

\* Call with the exception of _run swallowed.
CallIgnoringError(r, arguments, next, appended) ==
    \E res \in superuser_run(arguments) :
       /\ Invoke(r, arguments, res)
       /\ pc' = [pc EXCEPT ![r] = next]
       /\ messages' = [messages EXCEPT ![r] =
                          IF run_raises(res) THEN @ ELSE @ \o appended]

\* Call with the message appended before _run is called.
CallAppendingFirst(r, arguments, next, appended) ==
    \E res \in superuser_run(arguments) :
       /\ Invoke(r, arguments, res)
       /\ pc' = [pc EXCEPT ![r] = IF run_raises(res) THEN "failed" ELSE next]
       /\ messages' = [messages EXCEPT ![r] = @ \o appended]

\* A _run(...) followed by messages.append(...), then the next statement.
Call(r, arguments, next, appended) ==
    \E res \in superuser_run(arguments) :
       /\ Invoke(r, arguments, res)
       /\ IF run_raises(res)
          THEN /\ pc' = [pc EXCEPT ![r] = "failed"]
               /\ UNCHANGED messages
          ELSE /\ pc' = [pc EXCEPT ![r] = next]
               /\ messages' = [messages EXCEPT ![r] = @ \o appended]

\* A condition that is false: on to the next statement.
Skip(r, next) ==
    /\ pc' = [pc EXCEPT ![r] = next]
    /\ UNCHANGED <<tool, calls, errBudget, messages>>

ApplyStop(r) ==
    /\ pc[r] = "stop"
    /\ IF status_differs(old_status[r], new_status(r))
       THEN Call(r, <<T("stop")>>, "set-status", <<>>)
       ELSE Skip(r, "set-status")
    /\ trace' = Append(trace, <<r, "begin">>)
    /\ UNCHANGED <<tool0, method, post, phase, st, status, old_status>>

\* old_status['enabled'] of None raises TypeError.
ApplyEnabled(r) ==
    /\ pc[r] = "set-status"
    /\ IF old_status[r] = None
       THEN /\ pc' = [pc EXCEPT ![r] = "crashed"]
            /\ UNCHANGED <<tool, calls, errBudget, messages>>
       ELSE IF old_status[r].enabled # new_status(r).enabled
            THEN Call(r, <<T("set-status"), EnableWord(new_status(r).enabled)>>,
                      "set-kite",
                      <<<<"success",
                          IF new_status(r).enabled THEN "PageKite enabled"
                                                   ELSE "PageKite disabled">>>>)
            ELSE Skip(r, "set-kite")
    /\ UNCHANGED <<tool0, method, post, phase, st, status, old_status, trace>>

ApplyKite(r) ==
    /\ pc[r] = "set-kite"
    /\ IF kite_differs(old_status[r], new_status(r))
       THEN Call(r, <<T("set-kite"),
                      T("--kite-name"), new_status(r).kite_name,
                      T("--kite-secret"), new_status(r).kite_secret>>,
                 "set-service-status http",
                 <<<<"success", "Kite details set">>>>)
       ELSE Skip(r, "set-service-status http")
    /\ UNCHANGED <<tool0, method, post, phase, st, status, old_status, trace>>

SetPc(service) == "set-service-status " \o service

ApplyService(r) ==
    /\ \E service \in Services :
          /\ pc[r] = SetPc(service)
          /\ LET key  == service \o "_enabled"
                 next == IF service = "http" THEN SetPc("ssh") ELSE "start"
             IN  IF old_status[r][key] # new_status(r)[key]
                 THEN Call(r, <<T("set-service-status"), T(service),
                                EnableWord(new_status(r)[key])>>,
                           next,
                           <<<<"success",
                               IF new_status(r)[key]
                               THEN "Service enabled: " \o service
                               ELSE "Service disabled: " \o service>>>>)
                 ELSE Skip(r, next)
    /\ UNCHANGED <<tool0, method, post, phase, st, status, old_status, trace>>

\* The last statement of _apply_changes; configure then calls get_status
\* a second time.
ApplyStart(r) ==
    /\ pc[r] = "start"
    /\ IF status_differs(old_status[r], new_status(r))
       THEN Call(r, <<T("start")>>, "get-installed", <<>>)
       ELSE Skip(r, "get-installed")
    /\ phase' = [phase EXCEPT ![r] = IF pc'[r] = "failed" THEN @ ELSE 2]
    /\ trace' = IF pc'[r] = "failed" THEN trace
                ELSE Append(trace, <<r, "end">>)
    /\ UNCHANGED <<tool0, method, post, st, status, old_status>>

\* ------------------------------------------------------ specification

\* What every request starts from: configure's locals before its first call.
Fresh ==
    /\ phase = [r \in Reqs |-> 1]
    /\ st = [r \in Reqs |-> <<>>]
    /\ tool0 = tool
    /\ status = [r \in Reqs |-> None]
    /\ old_status = [r \in Reqs |-> None]
    /\ messages = [r \in Reqs |-> <<>>]
    /\ calls = [r \in Reqs |-> <<>>]
    /\ trace = <<>>

\* One request, GET or POST, against any configuration of the tool.
Init ==
    /\ tool \in Tools
    /\ \E m \in {"GET", "POST"} : method = [r \in Reqs |-> m]
    /\ \E p \in Posts :
          post = [r \in Reqs |-> IF method[r] = "POST" THEN p ELSE NoPost]
    /\ pc = [r \in Reqs |-> IF r = 1 THEN "get-installed" ELSE "off"]
    /\ errBudget = MaxErrors
    /\ Fresh

Step(r) ==
    \/ GetInstalled(r)
    \/ GetStatus(r)
    \/ GetKite(r)
    \/ GetServiceStatus(r)
    \/ ApplyStop(r)
    \/ ApplyEnabled(r)
    \/ ApplyKite(r)
    \/ ApplyService(r)
    \/ ApplyStart(r)

Next == \E r \in Reqs : Step(r)

Spec == Init /\ [][Next]_vars

\* Two POSTs with valid forms served together, no CLI call failing.  The
\* server runs each request in a thread of its own and nothing orders their
\* CLI calls.
ConcTools ==
    {t \in Tools : /\ t.installed /\ t.running
                   /\ t.kite_name = <<"a">> /\ t.kite_secret = <<"s">>
                   /\ ~t.http_enabled /\ ~t.ssh_enabled}

ConcPosts ==
    {p \in Posts : is_valid(p) /\ p.kite_secret = <<"s">> /\ ~p.ssh_enabled}

InitConc ==
    /\ tool \in ConcTools
    /\ method = [r \in Reqs |-> "POST"]
    /\ post \in [Reqs -> ConcPosts]
    /\ pc = [r \in Reqs |-> "get-installed"]
    /\ errBudget = 0
    /\ Fresh

SpecConc == InitConc /\ [][Next]_vars

\* ------------------------------------------------- reading the log

Range(s) == {s[i] : i \in DOMAIN s}

Last(s) == s[Len(s)]

Take(s, n) == SubSeq(s, 1, IF Len(s) < n THEN Len(s) ELSE n)

IsPrefix(a, b) == Len(a) <= Len(b) /\ a = SubSeq(b, 1, Len(a))

\* The subcommand of a logged call.
Op(c) == c.arguments[1][1]

GetOps == {"get-installed", "get-status", "get-kite", "get-service-status"}

SetOps == {"set-status", "set-kite", "set-service-status"}

IsGet(c) == Op(c) \in GetOps

IsApply(c) == Op(c) \notin GetOps

IsSet(c) == Op(c) \in SetOps

Succeeded(c) == c.error = <<>>

\* The calls of request r made by get_status, and those by _apply_changes.
GetCalls(r) == SelectSeq(calls[r], IsGet)

ApplyCalls(r) == SelectSeq(calls[r], IsApply)

SetCalls(r) == SelectSeq(calls[r], IsSet)

Arguments(cs) == [i \in DOMAIN cs |-> cs[i].arguments]

Ops(cs) == [i \in DOMAIN cs |-> Op(cs[i])]

NoError(cs) == \A i \in DOMAIN cs : Succeeded(cs[i])

\* Where configure is.
GetStatusPcs ==
    {"get-installed", "get-status", "get-kite"} \cup {GetPc(v) : v \in Services}

ApplyPcs == {"stop", "set-status", "set-kite", "start"} \cup {SetPc(v) : v \in Services}

FirstStatusReturned(r) == <<r, "status">> \in Range(trace)

ApplyBegun(r) == <<r, "begin">> \in Range(trace)

ApplyReturned(r) == <<r, "end">> \in Range(trace)

\* _apply_changes was entered and has returned or raised.
ApplyEnded(r) == ApplyBegun(r) /\ pc[r] \notin ApplyPcs

ValidPost(r) == method[r] = "POST" /\ is_valid(post[r])

Fields == {"enabled", "kite_name", "kite_secret", "http_enabled", "ssh_enabled"}

Agree(a, b) == \A f \in Fields : a[f] = b[f]

\* The set-* commands the diff of two status records calls for, in the order
\* status, kite, http, ssh.
DiffCommands(old, new) ==
    (IF old.enabled # new.enabled
     THEN << <<T("set-status"), EnableWord(new.enabled)>> >> ELSE <<>>)
    \o
    (IF old.kite_name # new.kite_name \/ old.kite_secret # new.kite_secret
     THEN << <<T("set-kite"), T("--kite-name"), new.kite_name,
               T("--kite-secret"), new.kite_secret>> >> ELSE <<>>)
    \o
    (IF old.http_enabled # new.http_enabled
     THEN << <<T("set-service-status"), T("http"),
               EnableWord(new.http_enabled)>> >> ELSE <<>>)
    \o
    (IF old.ssh_enabled # new.ssh_enabled
     THEN << <<T("set-service-status"), T("ssh"),
               EnableWord(new.ssh_enabled)>> >> ELSE <<>>)

\* ------------------------------------------------------------ claims

\* C1, as stated: once _apply_changes has ended on an old status that is a
\* record, the set-* commands it emitted are exactly the diff of the two
\* records, whether or not a CLI call reported an error.
C1_SetCommandsAreTheDiffAlways ==
    \A r \in Reqs :
        (ApplyEnded(r) /\ old_status[r] # None)
            => Arguments(SetCalls(r)) = DiffCommands(old_status[r], new_status(r))

\* C1, amended: the set-* commands _apply_changes has emitted so far are
\* always a prefix of the diff of the two records, with no command twice, and
\* they are exactly the diff once _apply_changes has returned, which it does
\* when no CLI call reported an error.
C1_SetCommandsAreTheDiff ==
    \A r \in Reqs :
        (ApplyBegun(r) /\ old_status[r] # None)
            => /\ IsPrefix(Arguments(SetCalls(r)),
                           DiffCommands(old_status[r], new_status(r)))
               /\ ApplyReturned(r)
                    => Arguments(SetCalls(r))
                         = DiffCommands(old_status[r], new_status(r))

\* C1 witness: _apply_changes returned after emitting set-kite alone, for a
\* changed secret and an unchanged name.
C1_Witness ==
    /\ ApplyReturned(1)
    /\ old_status[1].kite_name = new_status(1).kite_name
    /\ old_status[1].kite_secret # new_status(1).kite_secret
    /\ Ops(SetCalls(1)) = <<"set-kite">>

\* C2, as stated: when the five fields of a valid form equal the status just
\* read, _apply_changes returns without having emitted a CLI call; when one
\* differs, it returns having emitted both stop and start.
C2_NoCallWhenNothingChanged ==
    \A r \in Reqs :
        (ApplyReturned(r) /\ old_status[r] # None)
            => /\ Agree(old_status[r], new_status(r)) => ApplyCalls(r) = <<>>
               /\ ~Agree(old_status[r], new_status(r))
                    => {"stop", "start"} \subseteq Range(Ops(ApplyCalls(r)))

\* The commands of _apply_changes in the order the claim C3 gives: stop, the
\* set-* commands in the fixed order, each at most once, then start.
InOrder(ops) ==
    \E enabled \in BOOLEAN, kite \in BOOLEAN, http \in BOOLEAN, ssh \in BOOLEAN :
        ops = <<"stop">>
              \o (IF enabled THEN <<"set-status">> ELSE <<>>)
              \o (IF kite THEN <<"set-kite">> ELSE <<>>)
              \o (IF http THEN <<"set-service-status http">> ELSE <<>>)
              \o (IF ssh THEN <<"set-service-status ssh">> ELSE <<>>)
              \o <<"start">>

\* A logged call's subcommand, with the service of a set-service-status.
OpName(c) ==
    IF Op(c) = "set-service-status"
    THEN Op(c) \o " " \o c.arguments[2][1]
    ELSE Op(c)

\* C3, as stated: in every run of _apply_changes that has ended with stop
\* emitted and no CLI call reporting an error, the commands are stop, the
\* set-* commands in the fixed order, start.
C3_StopSetStartOrder ==
    \A r \in Reqs :
        (/\ ApplyEnded(r)
         /\ NoError(ApplyCalls(r))
         /\ "stop" \in Range(Ops(ApplyCalls(r))))
            => InOrder([i \in DOMAIN ApplyCalls(r) |-> OpName(ApplyCalls(r)[i])])

\* The message _apply_changes appends after a set-* command.
MessageOf(c) ==
    <<"success",
      IF Op(c) = "set-status"
      THEN IF c.arguments[2] = T("enable") THEN "PageKite enabled"
                                           ELSE "PageKite disabled"
      ELSE IF Op(c) = "set-kite" THEN "Kite details set"
      ELSE IF c.arguments[3] = T("enable")
           THEN "Service enabled: " \o c.arguments[2][1]
           ELSE "Service disabled: " \o c.arguments[2][1]>>

SucceededSet(c) == IsSet(c) /\ Succeeded(c)

\* C10: at every point the messages are, in order, those of the set-*
\* commands that have returned without error; stop and start add none.
C10_MessagesMatchCommands ==
    \A r \in Reqs :
        LET done == SelectSeq(calls[r], SucceededSet)
        IN  messages[r] = [i \in DOMAIN done |-> MessageOf(done[i])]

\* C10 witness: a set-* command failed after two others had succeeded, and
\* two messages stand.
C10_Witness ==
    /\ pc[1] = "failed"
    /\ Len(SetCalls(1)) = 3
    /\ Len(messages[1]) = 2

\* C4: a CLI call that reports an error ends the request in failure and one
\* that reports none does not; after the failure the request issues no call
\* (no retry, no start after a failed command); and the set-* commands that
\* had succeeded before the failure still stand in the tool.
C4_ErrorEndsRequest ==
    [][\A r \in Reqs :
          /\ calls'[r] # calls[r]
               => /\ calls'[r] = Append(calls[r], Last(calls'[r]))
                  /\ ~Succeeded(Last(calls'[r])) <=> pc'[r] = "failed"
          /\ pc[r] = "failed" => (calls'[r] = calls[r] /\ pc'[r] = "failed")
          /\ pc'[r] = "failed"
               => /\ ~Succeeded(Last(calls'[r]))
                  /\ NoError(SubSeq(calls'[r], 1, Len(calls'[r]) - 1))
                  /\ \A i \in DOMAIN calls'[r] :
                        SucceededSet(calls'[r][i])
                            => ToolApply(tool', calls'[r][i].arguments) = tool'
     ]_vars

\* C4 witness: set-kite failed after stop and set-status had succeeded; start
\* was not issued, the tool is stopped and keeps the status that was set.
C4_Witness ==
    /\ pc[1] = "failed"
    /\ Ops(ApplyCalls(1)) = <<"stop", "set-status", "set-kite">>
    /\ ~tool.running
    /\ tool.enabled = new_status(1).enabled

\* C5: a request that is not a POST with a valid form, and get_status in
\* any request, issue get-* subcommands only and leave the tool's
\* configuration as it was.
C5_ReadingChangesNothing ==
    [][\A r \in Reqs :
          /\ ~ValidPost(r) => \A i \in DOMAIN calls'[r] : IsGet(calls'[r][i])
          /\ (calls'[r] # calls[r] /\ (~ValidPost(r) \/ pc[r] \in GetStatusPcs))
               => (IsGet(Last(calls'[r])) /\ tool' = tool)
     ]_vars

\* C5 witness: a POST whose form failed validation was answered after the
\* five get-* calls of get_status.
C5_Witness ==
    /\ method[1] = "POST"
    /\ ~is_valid(post[1])
    /\ pc[1] = "done"
    /\ Len(calls[1]) = 5

\* The five calls of get_status, in order.
StatusOps == <<"get-installed", "get-status", "get-kite",
               "get-service-status http", "get-service-status ssh">>

OpNames(cs) == [i \in DOMAIN cs |-> IF Op(cs[i]) = "get-service-status"
                                    THEN Op(cs[i]) \o " " \o cs[i].arguments[2][1]
                                    ELSE Op(cs[i])]

FirstToken(output) == split(output)[1]

\* The record that the claim C6 reads off the outputs of the five calls cs.
Describes(record, cs) ==
    /\ OpNames(cs) = StatusOps
    /\ Fields \subseteq DOMAIN record
    /\ record.enabled = (FirstToken(cs[2].output) = T("enabled"))
    /\ record.kite_name = split(cs[3].output)[1]
    /\ record.kite_secret = split(cs[3].output)[2]
    /\ record.http_enabled = (FirstToken(cs[4].output) = T("enabled"))
    /\ record.ssh_enabled = (FirstToken(cs[5].output) = T("enabled"))

ReportsInstalled(r) ==
    /\ calls[r] # <<>>
    /\ Succeeded(calls[r][1])
    /\ FirstToken(calls[r][1].output) = T("installed")

\* The first get_status of request r has returned or raised.
FirstStatusEnded(r) ==
    \/ FirstStatusReturned(r)
    \/ pc[r] = "failed" /\ ~ApplyBegun(r)

\* The value of configure's status is that of its second get_status.
Reread(r) == phase[r] = 2 /\ pc[r] = "done"

\* C6, as stated: when the tool reports 'installed', get_status issues the
\* five get-* calls in order and returns the record read off their outputs.
C6_StatusWheneverInstalled ==
    \A r \in Reqs :
        (FirstStatusEnded(r) /\ ReportsInstalled(r))
            => /\ Len(GetCalls(r)) >= 5
               /\ FirstStatusReturned(r)
               /\ ~Reread(r) => Describes(status[r], Take(GetCalls(r), 5))

\* C6, amended: when the tool reports 'installed' and no CLI call of
\* get_status reports an error, get_status issues the five get-* calls in
\* order and returns the record read off their outputs; this holds of the
\* second get_status of a request as of the first.
C6_StatusReadOffOutputs ==
    \A r \in Reqs :
        /\ (FirstStatusReturned(r) /\ ReportsInstalled(r) /\ ~Reread(r))
             => /\ Len(GetCalls(r)) >= 5
                /\ NoError(Take(GetCalls(r), 5))
                /\ Describes(status[r], Take(GetCalls(r), 5))
        /\ (FirstStatusEnded(r) /\ ReportsInstalled(r)
              /\ NoError(Take(GetCalls(r), 5)))
             => FirstStatusReturned(r)
        /\ Reread(r)
             => /\ Len(GetCalls(r)) = 10
                /\ Describes(status[r], SubSeq(GetCalls(r), 6, 10))

\* C6 witness: get_status returned a record read from a get-kite output of
\* three tokens.
C6_Witness ==
    /\ FirstStatusReturned(1)
    /\ ReportsInstalled(1)
    /\ Len(calls[1]) = 5
    /\ Len(split(calls[1][3].output)) = 3
    /\ status[1].kite_secret = <<"s">>

\* C7, as stated: after a POST with a valid form in which no CLI call
\* reported an error, the status read again agrees with the submitted form on
\* all five fields.
C7_RereadAgreesWithForm ==
    \A r \in Reqs :
        (ValidPost(r) /\ Reread(r) /\ NoError(calls[r]))
            => Agree(status[r], new_status(r))

\* C9, as stated: when get-installed does not report 'installed', get_status
\* returns no status and the request issues no command but get-installed.
C9_NothingButGetInstalled ==
    \A r \in Reqs :
        (/\ calls[r] # <<>>
         /\ Succeeded(calls[r][1])
         /\ FirstToken(calls[r][1].output) # T("installed"))
            => /\ status[r] = None
               /\ Len(calls[r]) = 1

\* Where an event stands in the trace.
Pos(e) == CHOOSE i \in DOMAIN trace : trace[i] = e

\* Both requests had their status before either entered _apply_changes.
BothReadFirst ==
    /\ \A r \in Reqs : FirstStatusReturned(r) /\ ApplyBegun(r)
    /\ \A r, o \in Reqs : Pos(<<r, "status">>) < Pos(<<o, "begin">>)

\* The _apply_changes of request r ran after that of request o had returned.
RanLast(r, o) ==
    /\ ApplyBegun(r) /\ ApplyReturned(o)
    /\ Pos(<<o, "end">>) < Pos(<<r, "begin">>)

BothDone == \A r \in Reqs : pc[r] = "done"

\* The fields one set-* command writes together.
Groups == {{"enabled"}, {"kite_name", "kite_secret"},
           {"http_enabled"}, {"ssh_enabled"}}

Changed(r, g) == \E f \in g : old_status[r][f] # new_status(r)[f]

====
